---- MODULE Spec2Model ----
(***************************************************************************)
(* Model of remix-isomorphic-link (src/src/index.tsx, lines 1-314).        *)
(*                                                                         *)
(* Strings are sequences of one-character strings, so that parsing,        *)
(* prefix stripping and concatenation are computed character by character. *)
(* An optional value (a parameter or property that may be undefined) is a  *)
(* set with at most one element: {} is undefined, {v} is the value v.      *)
(***************************************************************************)
EXTENDS Integers, Sequences, FiniteSets, TLC

\* ------------------------------------------------------------------------
\* Strings
\* ------------------------------------------------------------------------

Last(s) == s[Len(s)]

startsWith(s, p) == Len(p) <= Len(s) /\ SubSeq(s, 1, Len(p)) = p

substring(s, n) == SubSeq(s, n + 1, Len(s))

\* Position of the first occurrence of a character of set cs in s, 0 if none.
IndexOfAny(s, cs) ==
  IF \E i \in 1..Len(s) : s[i] \in cs
    THEN CHOOSE i \in 1..Len(s) : s[i] \in cs /\ \A j \in 1..(i - 1) : s[j] \notin cs
    ELSE 0

\* ------------------------------------------------------------------------
\* new URL(input): the WHATWG URL parser without a base URL, restricted to
\* the characters of the model: ASCII letters, "-", ".", ":", "/", "?", "#",
\* "@". No digits (so a non-empty port is always a parse failure), no "\",
\* "%", "[", whitespace or non-ASCII characters, and no "file:" scheme.
\* ------------------------------------------------------------------------

LowerAlpha == {"a","b","c","d","e","f","g","h","i","j","k","l","m",
               "n","o","p","q","r","s","t","u","v","w","x","y","z"}

UpperAlpha == {"A","B","C"}

Alpha == LowerAlpha \cup UpperAlpha

SchemeChars == Alpha \cup {"-", "."}

toLowerChar(c) == IF c = "A" THEN "a" ELSE IF c = "B" THEN "b" ELSE IF c = "C" THEN "c" ELSE c

toLowerCase(s) == [i \in 1..Len(s) |-> toLowerChar(s[i])]

SpecialSchemes == { <<"h","t","t","p">>, <<"h","t","t","p","s">>, <<"f","t","p">>,
                    <<"w","s">>, <<"w","s","s">> }

\* scheme start state / scheme state: position of the ":" that ends the
\* scheme, 0 if the input has no scheme (no-scheme state without base: failure).
SchemeEnd(s) ==
  IF s = <<>> \/ s[1] \notin Alpha THEN 0
  ELSE LET k == IndexOfAny(s, {c \in {s[i] : i \in 1..Len(s)} : c \notin SchemeChars})
       IN IF k > 0 /\ s[k] = ":" THEN k ELSE 0

RECURSIVE StripSlashes(_)
\* special authority slashes / special authority ignore slashes states
StripSlashes(s) == IF s # <<>> /\ s[1] = "/" THEN StripSlashes(Tail(s)) ELSE s

RECURSIVE SplitSegments(_)
\* the segments of a path, each ended by "/" except the last
SplitSegments(s) ==
  LET k == IndexOfAny(s, {"/"})
  IN IF k = 0 THEN << s >>
     ELSE << SubSeq(s, 1, k - 1) >> \o SplitSegments(substring(s, k))

RECURSIVE PathState(_, _, _)
\* path state: segs[i] is the buffer when "/" (i < Len) or the end of the
\* path (i = Len) is reached; ".." shortens the path, "." is dropped.
PathState(segs, i, path) ==
  IF i > Len(segs) THEN path
  ELSE LET seg == segs[i]
           atSlash == i < Len(segs)
           shortened == IF path = <<>> THEN path ELSE SubSeq(path, 1, Len(path) - 1)
       IN IF seg = <<".", ".">>
            THEN PathState(segs, i + 1, IF atSlash THEN shortened ELSE Append(shortened, <<>>))
          ELSE IF seg = <<".">>
            THEN PathState(segs, i + 1, IF atSlash THEN path ELSE Append(path, <<>>))
          ELSE PathState(segs, i + 1, Append(path, seg))

RECURSIVE PathSerialize(_)
\* URL path serializer for a list path: "/" followed by each segment
PathSerialize(path) ==
  IF path = <<>> THEN <<>> ELSE <<"/">> \o Head(path) \o PathSerialize(Tail(path))

FailedURL == [ok |-> FALSE, href |-> <<>>, protocol |-> <<>>, host |-> <<>>,
              pathname |-> <<>>, search |-> <<>>, hash |-> <<>>]

\* The parts of s around the first occurrence of character c
HasChar(s, c) == IndexOfAny(s, {c}) > 0

BeforeChar(s, c) == IF HasChar(s, c) THEN SubSeq(s, 1, IndexOfAny(s, {c}) - 1) ELSE s

AfterChar(s, c) == IF HasChar(s, c) THEN substring(s, IndexOfAny(s, {c})) ELSE <<>>

\* The URL record, from the parsed components. A null query or fragment is
\* absent from href; an empty one gives an empty search or hash.
SerializeURL(scheme, hostPart, host, pathname, hasQuery, query, hasFragment, fragment) ==
  [ok |-> TRUE,
   href |-> scheme \o <<":">> \o hostPart \o pathname
              \o (IF hasQuery THEN <<"?">> \o query ELSE <<>>)
              \o (IF hasFragment THEN <<"#">> \o fragment ELSE <<>>),
   protocol |-> scheme \o <<":">>,
   host |-> host,
   pathname |-> pathname,
   search |-> IF query = <<>> THEN <<>> ELSE <<"?">> \o query,
   hash |-> IF fragment = <<>> THEN <<>> ELSE <<"#">> \o fragment]

\* Position of the last occurrence of character c in s, 0 if none
LastIndexOf(s, c) ==
  IF HasChar(s, c)
    THEN CHOOSE i \in 1..Len(s) : s[i] = c /\ \A j \in (i + 1)..Len(s) : s[j] # c
    ELSE 0

RECURSIVE EncodeUserinfo(_)
\* userinfo percent-encode set: of the model's characters, "@" and ":"
EncodeUserinfo(s) ==
  IF s = <<>> THEN <<>>
  ELSE (IF Head(s) = "@" THEN <<"%", "4", "0">>
        ELSE IF Head(s) = ":" THEN <<"%", "3", "A">>
        ELSE << Head(s) >>) \o EncodeUserinfo(Tail(s))

\* The credentials in href: username, ":" password if there is one, "@"
SerializeCredentials(username, password) ==
  IF username = <<>> /\ password = <<>> THEN <<>>
  ELSE EncodeUserinfo(username)
         \o (IF password = <<>> THEN <<>> ELSE <<":">> \o EncodeUserinfo(password))
         \o <<"@">>

\* host state and port state on the authority buffer after the credentials,
\* then path start state on what follows it. A ":" after an empty host
\* fails; a special URL needs a host; the port must be digits, and there are
\* none, so anything after ":" fails. A special host is lowercased, an opaque
\* host is not. A special URL always has a path; another one has none when
\* nothing follows the authority.
HostState(scheme, special, credentials, auth, rawPath, hasQuery, query, hasFragment, fragment) ==
  IF BeforeChar(auth, ":") = <<>> /\ (special \/ HasChar(auth, ":")) THEN FailedURL
  ELSE IF AfterChar(auth, ":") # <<>> THEN FailedURL
  ELSE SerializeURL(scheme,
                    <<"/", "/">> \o credentials
                      \o (IF special THEN toLowerCase(BeforeChar(auth, ":")) ELSE BeforeChar(auth, ":")),
                    IF special THEN toLowerCase(BeforeChar(auth, ":")) ELSE BeforeChar(auth, ":"),
                    IF rawPath = <<>>
                      THEN (IF special THEN <<"/">> ELSE <<>>)
                      ELSE PathSerialize(PathState(SplitSegments(Tail(rawPath)), 1, <<>>)),
                    hasQuery, query, hasFragment, fragment)

\* authority state: what precedes the last "@" is the credentials (username
\* up to the first ":", then the password); an "@" with nothing after it
\* fails.
AuthorityState(scheme, special, auth, rawPath, hasQuery, query, hasFragment, fragment) ==
  IF ~HasChar(auth, "@")
    THEN HostState(scheme, special, <<>>, auth, rawPath, hasQuery, query, hasFragment, fragment)
  ELSE IF LastIndexOf(auth, "@") = Len(auth) THEN FailedURL
  ELSE HostState(scheme, special,
                 SerializeCredentials(BeforeChar(SubSeq(auth, 1, LastIndexOf(auth, "@") - 1), ":"),
                                      AfterChar(SubSeq(auth, 1, LastIndexOf(auth, "@") - 1), ":")),
                 substring(auth, LastIndexOf(auth, "@")),
                 rawPath, hasQuery, query, hasFragment, fragment)

\* A path without authority: the host is null, and href gets "/." before a
\* path whose first segment is empty.
NoAuthorityPath(scheme, path, hasQuery, query, hasFragment, fragment) ==
  SerializeURL(scheme,
               IF Len(path) > 1 /\ path[1] = <<>> THEN <<"/", ".">> ELSE <<>>,
               <<>>, PathSerialize(path), hasQuery, query, hasFragment, fragment)

\* After the scheme, with query and fragment split off: a special scheme
\* skips any slashes and reads an authority; another scheme reads an
\* authority after "//", a path after "/", and an opaque path otherwise.
AfterScheme(scheme, main, hasQuery, query, hasFragment, fragment) ==
  IF scheme \in SpecialSchemes
    THEN AuthorityState(scheme, TRUE, BeforeChar(StripSlashes(main), "/"),
                        IF HasChar(StripSlashes(main), "/")
                          THEN <<"/">> \o AfterChar(StripSlashes(main), "/") ELSE <<>>,
                        hasQuery, query, hasFragment, fragment)
  ELSE IF startsWith(main, <<"/", "/">>)
    THEN AuthorityState(scheme, FALSE, BeforeChar(substring(main, 2), "/"),
                        IF HasChar(substring(main, 2), "/")
                          THEN <<"/">> \o AfterChar(substring(main, 2), "/") ELSE <<>>,
                        hasQuery, query, hasFragment, fragment)
  ELSE IF startsWith(main, <<"/">>)
    THEN NoAuthorityPath(scheme, PathState(SplitSegments(Tail(main)), 1, <<>>),
                         hasQuery, query, hasFragment, fragment)
  ELSE SerializeURL(scheme, <<>>, <<>>, main, hasQuery, query, hasFragment, fragment)

\* "#" ends every state after the scheme, "?" every state before the query
SplitQuery(scheme, beforeHash, hasFragment, fragment) ==
  AfterScheme(scheme, BeforeChar(beforeHash, "?"), HasChar(beforeHash, "?"),
              AfterChar(beforeHash, "?"), hasFragment, fragment)

SplitFragment(scheme, rest) ==
  SplitQuery(scheme, BeforeChar(rest, "#"), HasChar(rest, "#"), AfterChar(rest, "#"))

URL(input) ==
  IF SchemeEnd(input) = 0 THEN FailedURL
  ELSE SplitFragment(toLowerCase(SubSeq(input, 1, SchemeEnd(input) - 1)),
                     substring(input, SchemeEnd(input)))

\* ------------------------------------------------------------------------
\* Optional values and navigation targets
\* ------------------------------------------------------------------------

Undefined == {}

Some(v) == {v}

Value(o) == CHOOSE v \in o : TRUE

\* JavaScript truthiness of an optional boolean
Truthy(o) == TRUE \in o

\* JavaScript truthiness of an optional string
TruthyString(o) == o # Undefined /\ Value(o) # <<>>

\* The type To of the router: a string, or a Partial<Path> whose fields
\* pathname, search and hash are optional strings.
StringTo(s) == [type |-> "string", s |-> s,
                pathname |-> Undefined, search |-> Undefined, hash |-> Undefined]

PathTo(pathname, search, hash) ==
  [type |-> "path", s |-> <<>>, pathname |-> pathname, search |-> search, hash |-> hash]

\* ------------------------------------------------------------------------
\* src/src/index.tsx
\* ------------------------------------------------------------------------

NoError == "none"

ConfigMisuse == "remix-isomorphic-link: isExternal with a to prop of type Path"

TypeError == "TypeError: Invalid URL"

\* mutant: the misuse is reported but not thrown
throwError_logged(message) == [kind |-> "return", error |-> NoError, isOutgoing |-> FALSE, to |-> StringTo(<<>>)]

throwError(message) == [kind |-> "throw", error |-> message, isOutgoing |-> FALSE, to |-> StringTo(<<>>)]

Return(isOutgoing, to) == [kind |-> "return", error |-> NoError, isOutgoing |-> isOutgoing, to |-> to]

\* mutant: a bare domain is taken for a URL
isUrl_domain(href) == URL(href).ok \/ (\E i \in 1..Len(href) : href[i] = ".")

isUrl(href) == URL(href).ok

\* mutant: prefix test instead of equality
isInHostDomain_prefix(url, host) == host # Undefined /\ startsWith(url.host, Value(host))

isInHostDomain(url, host) == host # Undefined /\ url.host = Value(host)

\* mutant: isOutgoing not negated
urlToHref_notNegated(url, host) ==
  [thrown |-> FALSE, href |-> url.href, prototcol |-> url.protocol, host |-> url.host,
   pathname |-> url.pathname, search |-> url.search, hash |-> url.hash,
   isOutgoing |-> isInHostDomain(url, host), isAbsolute |-> TRUE]

urlToHref(url, host) ==
  [thrown |-> FALSE,
   href |-> url.href,
   prototcol |-> url.protocol,
   host |-> url.host,
   pathname |-> url.pathname,
   search |-> url.search,
   hash |-> url.hash,
   isOutgoing |-> ~isInHostDomain(url, host),
   isAbsolute |-> TRUE]

FakeOrigin == <<"h","t","t","p","s",":","/","/","r","e","m","i","x","-","i","s","o","m","o","r","p","h","i","c",
                "-","l","i","n","k",".","c","o","m">>

\* mutant: as many characters as the host has are cut off any href
stripHost_anyHref(href, host) ==
  IF TruthyString(host)
    THEN substring(href, Len(Value(host)))
    ELSE href

\* parseHref, lines 115-118: the configured host is cut off the front
stripHost(href, host) ==
  IF TruthyString(host) /\ startsWith(href, Value(host))
    THEN substring(href, Len(Value(host)))
    ELSE href

\* parseHref, lines 122-131: the HREF of an internal href from its fake URL;
\* thrown is TRUE when new URL(fakeUrl) throws out of parseHref
fakeUrlToHref(href, isAbsolute, url) ==
  [thrown |-> ~url.ok, href |-> href, prototcol |-> <<>>, host |-> <<>>,
   pathname |-> url.pathname, search |-> url.search, hash |-> url.hash,
   isOutgoing |-> FALSE, isAbsolute |-> isAbsolute]

\* mutant: a relative href is appended to the fake origin without "/"
parseInternal_noRoot(href, sanitizedHref) ==
  fakeUrlToHref(href, startsWith(sanitizedHref, <<"/">>), URL(FakeOrigin \o sanitizedHref))

\* parseHref, lines 119-121: the href is made a path of the fake origin
parseInternal(href, sanitizedHref) ==
  fakeUrlToHref(href, startsWith(sanitizedHref, <<"/">>),
                URL(FakeOrigin \o (IF startsWith(sanitizedHref, <<"/">>)
                                     THEN sanitizedHref
                                     ELSE <<"/">> \o sanitizedHref)))

\* parseHref, lines 96-105: an opaque outgoing href
explicitHref(href) ==
  [thrown |-> FALSE, href |-> href, prototcol |-> <<>>, host |-> <<>>, pathname |-> <<>>,
   search |-> <<>>, hash |-> <<>>, isOutgoing |-> TRUE, isAbsolute |-> TRUE]

\* mutant: the explicit flag is looked at before the URL test
parseHref_flagFirst(href, host, isExternal) ==
  IF Truthy(isExternal) THEN explicitHref(href)
  ELSE IF isUrl(href) THEN urlToHref(URL(href), host)
  ELSE parseInternal(href, stripHost(href, host))

\* mutant: the explicit flag is not looked at
parseHref_noFlag(href, host, isExternal) ==
  IF isUrl(href) THEN urlToHref(URL(href), host)
  ELSE parseInternal(href, stripHost(href, host))

parseHref(href, host, isExternal) ==
  IF isUrl(href) THEN urlToHref(URL(href), host)
  ELSE IF Truthy(isExternal) THEN explicitHref(href)
  ELSE parseInternal(href, stripHost(href, host))

\* mutant: the first character is looked at, not the last
addFinalSlash_firstChar(pathname) ==
  IF pathname = <<>> THEN <<"/">>
  ELSE IF pathname[1] = "/" THEN pathname
  ELSE pathname \o <<"/">>

\* mutant: the slash is appended without looking at the last character
addFinalSlash_always(pathname) == pathname \o <<"/">>

addFinalSlash(pathname) ==
  IF pathname = <<>> THEN <<"/">>
  ELSE IF pathname[Len(pathname)] = "/" THEN pathname
  ELSE pathname \o <<"/">>

\* sanitizeTo, lines 181-186: what is returned for the parsed href of a string
sanitizeString(to, slash, href) ==
  IF href.thrown THEN throwError(TypeError)
  ELSE IF href.isOutgoing THEN Return(TRUE, to)
  ELSE Return(FALSE, StringTo((IF slash THEN addFinalSlash(href.pathname) ELSE href.pathname)
                                \o href.search \o href.hash))

\* mutant: the trailing slash is added to a Path without the test of pathname
sanitizeTo_noPathGuard(to, useTrailingSlash, explicitlyOutgoing, host) ==
  IF to.type # "string" /\ Truthy(explicitlyOutgoing) THEN throwError(ConfigMisuse)
  ELSE IF to.type = "string"
    THEN sanitizeString(to, Truthy(useTrailingSlash), parseHref(to.s, host, explicitlyOutgoing))
  ELSE Return(FALSE, PathTo(IF Truthy(useTrailingSlash)
                              THEN Some(addFinalSlash(IF to.pathname = Undefined THEN <<>> ELSE Value(to.pathname)))
                              ELSE to.pathname,
                            to.search, to.hash))

\* mutant: a Path with the explicit flag is not refused but taken as outgoing
sanitizeTo_pathFollowsFlag(to, useTrailingSlash, explicitlyOutgoing, host) ==
  IF to.type = "string"
    THEN sanitizeString(to, Truthy(useTrailingSlash), parseHref(to.s, host, explicitlyOutgoing))
  ELSE Return(Truthy(explicitlyOutgoing),
              PathTo(IF Truthy(useTrailingSlash) /\ TruthyString(to.pathname)
                       THEN Some(addFinalSlash(Value(to.pathname)))
                       ELSE to.pathname,
                     to.search, to.hash))

sanitizeTo(to, useTrailingSlash, explicitlyOutgoing, host) ==
  IF to.type # "string" /\ Truthy(explicitlyOutgoing) THEN throwError(ConfigMisuse)
  ELSE IF to.type = "string"
    THEN sanitizeString(to, Truthy(useTrailingSlash), parseHref(to.s, host, explicitlyOutgoing))
  ELSE Return(FALSE, PathTo(IF Truthy(useTrailingSlash) /\ TruthyString(to.pathname)
                              THEN Some(addFinalSlash(Value(to.pathname)))
                              ELSE to.pathname,
                            to.search, to.hash))

\* A className prop: undefined, a string, or a function of isActive whose
\* result may be undefined. Class names are sequences of words; joining with
\* a space is concatenation.
NoClassName == [kind |-> "undefined", str |-> <<>>, fn |-> [a \in BOOLEAN |-> Undefined]]

StringClassName(str) == [kind |-> "string", str |-> str, fn |-> [a \in BOOLEAN |-> Undefined]]

FunctionClassName(fn) == [kind |-> "function", str |-> <<>>, fn |-> fn]

\* line 25: the parameter default isActive = false
defaultIsActive(isActive) == IF isActive = Undefined THEN FALSE ELSE Value(isActive)

\* mutant: the className function is always called with isActive = false
isomorphicClassName_inactive(className, isActive) ==
  IF className.kind = "undefined" \/ (className.kind = "string" /\ className.str = <<>>) THEN <<>>
  ELSE IF className.kind = "string" THEN className.str
  ELSE IF className.fn[FALSE] = Undefined THEN <<>>
  ELSE Value(className.fn[FALSE])

isomorphicClassName(className, isActive) ==
  IF className.kind = "undefined" \/ (className.kind = "string" /\ className.str = <<>>) THEN <<>>
  ELSE IF className.kind = "string" THEN className.str
  ELSE IF className.fn[isActive] = Undefined THEN <<>>
  ELSE Value(className.fn[isActive])

\* The value of IsomorphicNavContext: the default value of createContext, or
\* the props given to the nearest IsomorphicNavProvider, whatever they are.
DefaultContext ==
  [host |-> Undefined, useTrailingSlash |-> Some(FALSE), useFinalSlash |-> Undefined,
   openOutgoingAsBlank |-> Some(FALSE), defaultPrefetch |-> Some("none")]

IsomorphicNavProvider(props) == props

\* useMemo: the stored value is reused while the dependency list is unchanged
NoMemo == [set |-> FALSE, deps |-> << StringTo(<<>>), Undefined, Undefined, Undefined >>, value |-> Return(FALSE, StringTo(<<>>))]

\* mutant: the host is missing from the dependency list
useSanitizedTo_hostNotDep(context, memo, linkTo, isExternal) ==
  LET deps == << linkTo, context.useTrailingSlash, isExternal, Undefined >>
  IN IF memo.set /\ memo.deps = deps THEN memo
     ELSE [set |-> TRUE, deps |-> deps,
           value |-> sanitizeTo(linkTo, context.useTrailingSlash, isExternal, context.host)]

useSanitizedTo(context, memo, linkTo, isExternal) ==
  LET deps == << linkTo, context.useTrailingSlash, isExternal, context.host >>
  IN IF memo.set /\ memo.deps = deps THEN memo
     ELSE [set |-> TRUE, deps |-> deps,
           value |-> sanitizeTo(linkTo, context.useTrailingSlash, isExternal, context.host)]

\* A style prop: undefined, an object, or a function of isActive. A style
\* object is a sequence of declarations.
NoStyle == [kind |-> "undefined", str |-> <<>>, fn |-> [a \in BOOLEAN |-> Undefined]]

ObjectStyle(css) == [kind |-> "object", str |-> css, fn |-> [a \in BOOLEAN |-> Undefined]]

FunctionStyle(fn) == [kind |-> "function", str |-> <<>>, fn |-> fn]

isomorphicStyle(style, isActive) ==
  IF style.kind = "undefined" THEN Undefined
  ELSE IF style.kind = "function" THEN style.fn[isActive]
  ELSE Some(style.str)

\* The children prop: undefined, a node, or a function of isActive
NoChildren == [kind |-> "undefined", str |-> <<>>, fn |-> [a \in BOOLEAN |-> Undefined]]

NodeChildren(node) == [kind |-> "node", str |-> node, fn |-> [a \in BOOLEAN |-> Undefined]]

FunctionChildren(fn) == [kind |-> "function", str |-> <<>>, fn |-> fn]

\* line 282: the children of the anchor
anchorChildren(children) ==
  IF children.kind = "function" THEN children.fn[FALSE]
  ELSE IF children.kind = "undefined" THEN Undefined
  ELSE Some(children.str)

\* The router's NavLink calls a style or children function with its isActive
navLinkRenderProp(prop, isActive) ==
  IF prop.kind = "function" THEN prop.fn[isActive]
  ELSE IF prop.kind = "undefined" THEN Undefined
  ELSE Some(prop.str)

\* line 279: the class of the anchor
externalClassName(className) ==
  <<"isomorphic-link", "isomorphic-link--external">> \o isomorphicClassName(className, FALSE)

\* mutant: the marker of the anchor is given to the router link too
internalClassName_externalMarker(className, isActive) ==
  <<"isomorphic-link", "isomorphic-link--external">> \o isomorphicClassName(className, isActive)

\* mutant: the isActive of the router is not handed on
internalClassName_inactive(className, isActive) ==
  <<"isomorphic-link", "isomorphic-link--internal">> \o isomorphicClassName(className, FALSE)

\* lines 290-292: the className function given to NavLink, at its isActive
internalClassName(className, isActive) ==
  <<"isomorphic-link", "isomorphic-link--internal">> \o isomorphicClassName(className, isActive)

\* mutant: the new-tab attributes do not depend on the policy
blankAttributes_always(context) ==
  [target |-> Some("_blank"), rel |-> Some("noopener noreferrer")]

\* line 275: the attributes spread on the anchor under openOutgoingAsBlank
blankAttributes(context) ==
  IF Truthy(context.openOutgoingAsBlank)
    THEN [target |-> Some("_blank"), rel |-> Some("noopener noreferrer")]
    ELSE [target |-> Undefined, rel |-> Undefined]

\* mutant: the provider's prefetch is spread after the link's own
navLinkPrefetch_providerWins(props, context) ==
  IF context.defaultPrefetch # Undefined THEN context.defaultPrefetch ELSE props.prefetch

\* lines 286-287: prefetch={defaultPrefetch} {...props}
navLinkPrefetch(props, context) ==
  IF props.prefetch # Undefined THEN props.prefetch ELSE context.defaultPrefetch

\* active is the isActive the router's NavLink handed to the render props;
\* an anchor is not rendered by the router and has none.
NoElement == [tag |-> "none", address |-> StringTo(<<>>), className |-> <<>>,
              style |-> Undefined, children |-> Undefined, active |-> FALSE,
              target |-> Undefined, rel |-> Undefined, prefetch |-> Undefined, error |-> NoError]

\* What IsomorphicLink renders, given the value useSanitizedTo returned and
\* the isActive the router's NavLink passes to its render props. The link
\* passes no target or rel of its own.
IsomorphicLink(props, context, sanitized, isActive) ==
  IF sanitized.kind = "throw"
    THEN [NoElement EXCEPT !.tag = "error", !.error = sanitized.error]
  ELSE IF sanitized.isOutgoing
    THEN [tag |-> "a",
          address |-> sanitized.to,
          className |-> externalClassName(props.className),
          style |-> isomorphicStyle(props.style, FALSE),
          children |-> anchorChildren(props.children),
          active |-> FALSE,
          target |-> blankAttributes(context).target,
          rel |-> blankAttributes(context).rel,
          prefetch |-> props.prefetch,
          error |-> NoError]
  ELSE [tag |-> "NavLink",
        address |-> sanitized.to,
        className |-> internalClassName(props.className, isActive),
        style |-> navLinkRenderProp(props.style, isActive),
        children |-> navLinkRenderProp(props.children, isActive),
        active |-> isActive,
        target |-> Undefined,
        rel |-> Undefined,
        prefetch |-> navLinkPrefetch(props, context),
        error |-> NoError]

\* The props of a link with the children "Link" and no style
LinkProps(linkTo, isExternal, className, prefetch) ==
  [to |-> linkTo, isExternal |-> isExternal, className |-> className,
   style |-> NoStyle, children |-> NodeChildren(<<"Link">>), prefetch |-> prefetch]

\* useIsomorphicNavigate, lines 240-255. The callback closes over the host
\* and useTrailingSlash of the render that created it; useCallback keeps
\* the previous callback while these dependencies are the same.
NoCallback == [deps |-> << >>, host |-> Undefined, useTrailingSlash |-> Undefined]

useIsomorphicNavigate(context, previous) ==
  IF previous.deps = << context.host, context.useTrailingSlash >> THEN previous
  ELSE [deps |-> << context.host, context.useTrailingSlash >>,
        host |-> context.host, useTrailingSlash |-> context.useTrailingSlash]

\* props?.isExternal
isExternalOf(navProps) == IF navProps = Undefined THEN Undefined ELSE Value(navProps).isExternal

NoEffects == [error |-> NoError, assign |-> Undefined, navigate |-> Undefined]

\* mutant: the error is thrown after the router was asked to navigate
navigateEffects_navigateThenThrow(sanitized, options) ==
  IF sanitized.kind = "throw"
    THEN [NoEffects EXCEPT !.error = sanitized.error,
                           !.navigate = Some([to |-> sanitized.to, options |-> options])]
  ELSE IF sanitized.isOutgoing THEN [NoEffects EXCEPT !.assign = Some(sanitized.to.s)]
  ELSE [NoEffects EXCEPT !.navigate = Some([to |-> sanitized.to, options |-> options])]

\* mutant: the router is asked to navigate for an outgoing target too
navigateEffects_both(sanitized, options) ==
  IF sanitized.kind = "throw" THEN [NoEffects EXCEPT !.error = sanitized.error]
  ELSE IF sanitized.isOutgoing
    THEN [NoEffects EXCEPT !.assign = Some(sanitized.to.s),
                           !.navigate = Some([to |-> sanitized.to, options |-> options])]
  ELSE [NoEffects EXCEPT !.navigate = Some([to |-> sanitized.to, options |-> options])]

\* lines 246-250: what the callback does with the result of sanitizeTo: an
\* error thrown by sanitizeTo leaves the callback before either branch
navigateEffects(sanitized, options) ==
  IF sanitized.kind = "throw" THEN [NoEffects EXCEPT !.error = sanitized.error]
  ELSE IF sanitized.isOutgoing THEN [NoEffects EXCEPT !.assign = Some(sanitized.to.s)]
  ELSE [NoEffects EXCEPT !.navigate = Some([to |-> sanitized.to, options |-> options])]

\* lines 244-251: isomorphicNavigate(to, options, props)
isomorphicNavigate(closure, navTo, options, navProps) ==
  navigateEffects(sanitizeTo(navTo, closure.useTrailingSlash, isExternalOf(navProps), closure.host),
                  options)

\* ------------------------------------------------------------------------
\* Inputs
\* ------------------------------------------------------------------------

MaxLen == 2

RawChars == {"c", "/", ":", "?", "#", "."}

RawStrings == UNION { [1..n -> RawChars] : n \in 0..MaxLen }

HostAB == <<"a", ".", "b">>

Prefixes == { <<>>,
              <<"h","t","t","p","s",":","/","/">> \o HostAB,
              <<"h","t","t","p","s",":","/","/","A",".","b">>,
              <<"h","t","t","p","s",":","/","/","y",".","t">>,
              HostAB,
              <<"c",":","/","/">> \o HostAB,
              <<"/","c","/">> }

Suffixes == { <<>>, <<"?","q","#","h">> }

\* Targets with a mail address or with credentials
Mailto == <<"m","a","i","l","t","o",":","a","@","b",".","c","o","m">>

WithAt == { Mailto, <<"h","t","t","p","s",":","/","/","c",":","c","@">> \o HostAB \o <<"/","c">> }

Strings == { p \o r \o x : p \in Prefixes, r \in RawStrings, x \in Suffixes } \cup WithAt

OptBool == { Undefined, Some(TRUE), Some(FALSE) }

Hosts == { Undefined, Some(<<>>), Some(HostAB) }

Paths == { PathTo(p, q, h) :
             p \in { Undefined, Some(<<>>), Some(<<"/","c">>), Some(<<"/","c","/">>), Some(<<"c">>) },
             q \in { Undefined, Some(<<"?","q">>) },
             h \in { Undefined, Some(<<"#","h">>) } }

Targets == { StringTo(s) : s \in Strings } \cup Paths

\* Inputs of the component: the targets of the unit tests
MyDomain == <<"m","y","d","o","m","a","i","n",".","c","o","m">>

LinkTargets ==
  { StringTo(<<"c","o","n","t","a","c","t">>),
    StringTo(<<"h","t","t","p","s",":","/","/","m","y","d","o","m","a","i","n",".","c","o","m","/","c","o","n","t","a","c","t">>),
    StringTo(<<"h","t","t","p","s",":","/","/","y","o","u","t","u","b","e",".","c","o","m">>),
    StringTo(<<"y","o","u","t","u","b","e",".","c","o","m">>),
    PathTo(Some(<<"/","c","o","n","t","a","c","t">>), Some(<<"?","q">>), Undefined) }

ClassNames ==
  { NoClassName,
    StringClassName(<<"all">>),
    FunctionClassName([a \in BOOLEAN |-> Some(IF a THEN <<"all", "active">> ELSE <<"all", "not-active">>)]) }

Contexts ==
  [host : { Undefined, Some(MyDomain) },
   useTrailingSlash : { Undefined, Some(TRUE) },
   useFinalSlash : { Undefined, Some(TRUE) },
   openOutgoingAsBlank : { Undefined, Some(TRUE) },
   defaultPrefetch : { Undefined, Some("intent") }]

\* className, style and children together: none given, all static, all
\* functions of isActive
ByActive(active, inactive) == [a \in BOOLEAN |-> Some(IF a THEN active ELSE inactive)]

Stylings ==
  { [className |-> NoClassName, style |-> NoStyle, children |-> NodeChildren(<<"Link">>)],
    [className |-> StringClassName(<<"all">>), style |-> ObjectStyle(<<"color: red">>),
     children |-> NodeChildren(<<"Link">>)],
    [className |-> FunctionClassName(ByActive(<<"all", "active">>, <<"all", "not-active">>)),
     style |-> FunctionStyle(ByActive(<<"color: red">>, <<"color: blue">>)),
     children |-> FunctionChildren(ByActive(<<"Here">>, <<"Link">>))] }

AllLinkProps ==
  { [LinkProps(t, e, g.className, p) EXCEPT !.style = g.style, !.children = g.children] :
      t \in LinkTargets, e \in { Undefined, Some(TRUE) }, g \in Stylings,
      p \in { Undefined, Some("render") } }

\* Inputs of isomorphicClassName: a class string is a sequence of words,
\* "" the empty one; a className function returns a string or undefined
ClassStrings == { <<>>, <<"all">>, <<"all", "active">>, <<"all", "not-active">> }

ClassResults == { Undefined } \cup { Some(w) : w \in ClassStrings }

ClassNameArgs ==
  { NoClassName } \cup { StringClassName(w) : w \in ClassStrings }
    \cup { FunctionClassName(f) : f \in [BOOLEAN -> ClassResults] }

\* Inputs of addFinalSlash
MaxCalls == 2

SlashPaths == { p \o r : p \in { <<>>, <<"/", "c">> }, r \in RawStrings }

\* Inputs of useIsomorphicNavigate
MaxNavigations == 2

NavContexts ==
  { [host |-> h, useTrailingSlash |-> s, useFinalSlash |-> Undefined,
     openOutgoingAsBlank |-> Undefined, defaultPrefetch |-> Undefined] :
      h \in { Undefined, Some(MyDomain) }, s \in { Undefined, Some(TRUE) } }

NavOptions == { Undefined, Some([replace |-> TRUE]) }

NavProps == { Undefined, Some([isExternal |-> Undefined]), Some([isExternal |-> Some(TRUE)]) }

\* ------------------------------------------------------------------------
\* State: the arguments of one call and its outcome
\* ------------------------------------------------------------------------

VARIABLES to, useTrailingSlash, explicitlyOutgoing, host, ret, pc,
          context, props, memo, element,
          slashPath, slashCalls,
          callback, navigation, location, router,
          classNameArg, isActiveArg, classNameRet, parsedHref

vars == << to, useTrailingSlash, explicitlyOutgoing, host, ret, pc, context, props, memo, element,
           slashPath, slashCalls, callback, navigation, location, router,
           classNameArg, isActiveArg, classNameRet, parsedHref >>

callVars == << to, useTrailingSlash, explicitlyOutgoing, host, ret >>

linkVars == << props, memo, element >>

slashVars == << slashPath, slashCalls >>

navVars == << callback, navigation, location, router >>

classNameVars == << classNameArg, isActiveArg, classNameRet >>

NoReturn == [kind |-> "none", error |-> NoError, isOutgoing |-> FALSE, to |-> StringTo(<<>>)]

NoProps == LinkProps(StringTo(<<>>), Undefined, NoClassName, Undefined)

\* No HREF: parseHref has not been called
NoHref == [thrown |-> FALSE, href |-> <<>>, prototcol |-> <<>>, host |-> <<>>, pathname |-> <<>>,
           search |-> <<>>, hash |-> <<>>, isOutgoing |-> FALSE, isAbsolute |-> FALSE]

\* The last call of the callback: its arguments and the error it threw
NoNavigation == [calls |-> 0, to |-> StringTo(<<>>), options |-> Undefined, props |-> Undefined,
                 error |-> NoError]

\* window.location: the value last assigned to href, and how many assignments
PageLocation == [href |-> <<>>, assignments |-> 0]

\* The router's navigate: its last arguments, and how many calls
NoRouterCall == [calls |-> 0, to |-> StringTo(<<>>), options |-> Undefined]

\* Spec: one call of sanitizeTo, or one first render of an IsomorphicLink
\* under a provider, for every combination of arguments.
Init ==
  /\ to \in Targets
  /\ useTrailingSlash \in OptBool
  /\ explicitlyOutgoing \in OptBool
  /\ host \in Hosts
  /\ ret = NoReturn
  /\ pc = "args"
  /\ context = DefaultContext
  /\ props = NoProps
  /\ memo = NoMemo
  /\ element = NoElement
  /\ slashPath = <<>>
  /\ slashCalls = 0
  /\ callback = NoCallback
  /\ navigation = NoNavigation
  /\ location = PageLocation
  /\ router = NoRouterCall
  /\ classNameArg = NoClassName
  /\ isActiveArg = Undefined
  /\ classNameRet = <<>>
  /\ parsedHref = NoHref

CallSanitizeTo ==
  /\ pc = "args"
  /\ ret' = sanitizeTo(to, useTrailingSlash, explicitlyOutgoing, host)
  /\ pc' = "returned"
  /\ UNCHANGED << to, useTrailingSlash, explicitlyOutgoing, host, context, props, memo, element, slashVars, navVars, classNameVars, parsedHref >>

\* <IsomorphicNavProvider host useTrailingSlash><IsomorphicLink to isExternal/>
\* on a route that the link does not point to
FirstRender ==
  /\ pc = "args"
  /\ context' = IsomorphicNavProvider([host |-> host, useTrailingSlash |-> useTrailingSlash,
                                       useFinalSlash |-> Undefined, openOutgoingAsBlank |-> Undefined,
                                       defaultPrefetch |-> Undefined])
  /\ props' = LinkProps(to, explicitlyOutgoing, NoClassName, Undefined)
  /\ memo' = useSanitizedTo(context', NoMemo, props'.to, props'.isExternal)
  /\ element' = IsomorphicLink(props', context', memo'.value, FALSE)
  /\ pc' = "rendered"
  /\ UNCHANGED << callVars, slashVars, navVars, classNameVars, parsedHref >>

Next == CallSanitizeTo \/ FirstRender

Spec == Init /\ [][Next]_vars

\* SpecLink: a mounted IsomorphicLink and a component that uses
\* useIsomorphicNavigate under a provider whose props are replaced, which
\* renders both again; the link's own props change too, which renders the
\* link again.
InitLink ==
  /\ to = StringTo(<<>>)
  /\ useTrailingSlash = Undefined
  /\ explicitlyOutgoing = Undefined
  /\ host = Undefined
  /\ ret = NoReturn
  /\ pc = "mounted"
  /\ context = DefaultContext
  /\ props \in AllLinkProps
  /\ memo = useSanitizedTo(context, NoMemo, props.to, props.isExternal)
  /\ \E isActive \in BOOLEAN : element = IsomorphicLink(props, context, memo.value, isActive)
  /\ slashPath = <<>>
  /\ slashCalls = 0
  /\ callback = useIsomorphicNavigate(context, NoCallback)
  /\ navigation = NoNavigation
  /\ location = PageLocation
  /\ router = NoRouterCall
  /\ classNameArg = NoClassName
  /\ isActiveArg = Undefined
  /\ classNameRet = <<>>
  /\ parsedHref = NoHref

ProviderRender ==
  /\ pc = "mounted"
  /\ \E p \in Contexts : context' = IsomorphicNavProvider(p)
  /\ memo' = useSanitizedTo(context', memo, props.to, props.isExternal)
  /\ \E isActive \in BOOLEAN : element' = IsomorphicLink(props, context', memo'.value, isActive)
  /\ callback' = useIsomorphicNavigate(context', callback)
  /\ UNCHANGED << callVars, pc, props, slashVars, navigation, location, router, classNameVars, parsedHref >>

LinkRender ==
  /\ pc = "mounted"
  /\ props' \in AllLinkProps
  /\ memo' = useSanitizedTo(context, memo, props'.to, props'.isExternal)
  /\ \E isActive \in BOOLEAN : element' = IsomorphicLink(props', context, memo'.value, isActive)
  /\ UNCHANGED << callVars, pc, context, slashVars, navVars, classNameVars, parsedHref >>

NextLink == ProviderRender \/ LinkRender

SpecLink == InitLink /\ [][NextLink]_vars

\* SpecSlash: addFinalSlash applied to a pathname, and again to its result
InitSlash ==
  /\ to = StringTo(<<>>)
  /\ useTrailingSlash = Undefined
  /\ explicitlyOutgoing = Undefined
  /\ host = Undefined
  /\ ret = NoReturn
  /\ pc = "slash"
  /\ context = DefaultContext
  /\ props = NoProps
  /\ memo = NoMemo
  /\ element = NoElement
  /\ slashPath \in SlashPaths
  /\ slashCalls = 0
  /\ callback = NoCallback
  /\ navigation = NoNavigation
  /\ location = PageLocation
  /\ router = NoRouterCall
  /\ classNameArg = NoClassName
  /\ isActiveArg = Undefined
  /\ classNameRet = <<>>
  /\ parsedHref = NoHref

CallAddFinalSlash ==
  /\ pc = "slash"
  /\ slashCalls < MaxCalls
  /\ slashPath' = addFinalSlash(slashPath)
  /\ slashCalls' = slashCalls + 1
  /\ UNCHANGED << callVars, pc, context, linkVars, navVars, classNameVars, parsedHref >>

NextSlash == CallAddFinalSlash

SpecSlash == InitSlash /\ [][NextSlash]_vars

\* SpecAgain: sanitizeTo called on a string without the explicit flag, and
\* called again, with the same configuration, on the internal target it
\* returned
InitAgain ==
  /\ to \in { StringTo(str) : str \in Strings }
  /\ useTrailingSlash \in OptBool
  /\ explicitlyOutgoing \in { Undefined, Some(FALSE) }
  /\ host \in Hosts
  /\ ret = NoReturn
  /\ pc = "args"
  /\ context = DefaultContext
  /\ props = NoProps
  /\ memo = NoMemo
  /\ element = NoElement
  /\ slashPath = <<>>
  /\ slashCalls = 0
  /\ callback = NoCallback
  /\ navigation = NoNavigation
  /\ location = PageLocation
  /\ router = NoRouterCall
  /\ classNameArg = NoClassName
  /\ isActiveArg = Undefined
  /\ classNameRet = <<>>
  /\ parsedHref = NoHref

CallSanitizeToAgain ==
  /\ pc = "returned"
  /\ ret.kind = "return" /\ ~ret.isOutgoing
  /\ to' = ret.to
  /\ ret' = sanitizeTo(ret.to, useTrailingSlash, explicitlyOutgoing, host)
  /\ pc' = "again"
  /\ UNCHANGED << useTrailingSlash, explicitlyOutgoing, host, context, linkVars, slashVars, navVars,
                  classNameVars, parsedHref >>

NextAgain == CallSanitizeTo \/ CallSanitizeToAgain

SpecAgain == InitAgain /\ [][NextAgain]_vars

\* SpecParse: one call of parseHref on a string
InitParse ==
  /\ to \in { StringTo(str) : str \in Strings }
  /\ useTrailingSlash = Undefined
  /\ explicitlyOutgoing \in OptBool
  /\ host \in Hosts
  /\ ret = NoReturn
  /\ pc = "href"
  /\ context = DefaultContext
  /\ props = NoProps
  /\ memo = NoMemo
  /\ element = NoElement
  /\ slashPath = <<>>
  /\ slashCalls = 0
  /\ callback = NoCallback
  /\ navigation = NoNavigation
  /\ location = PageLocation
  /\ router = NoRouterCall
  /\ classNameArg = NoClassName
  /\ isActiveArg = Undefined
  /\ classNameRet = <<>>
  /\ parsedHref = NoHref

CallParseHref ==
  /\ pc = "href"
  /\ parsedHref' = parseHref(to.s, host, explicitlyOutgoing)
  /\ pc' = "parsed"
  /\ UNCHANGED << callVars, context, linkVars, slashVars, navVars, classNameVars >>

NextParse == CallParseHref

SpecParse == InitParse /\ [][NextParse]_vars

\* SpecClassName: one call of isomorphicClassName, with isActive given or left out
InitClassName ==
  /\ to = StringTo(<<>>)
  /\ useTrailingSlash = Undefined
  /\ explicitlyOutgoing = Undefined
  /\ host = Undefined
  /\ ret = NoReturn
  /\ pc = "className"
  /\ context = DefaultContext
  /\ props = NoProps
  /\ memo = NoMemo
  /\ element = NoElement
  /\ slashPath = <<>>
  /\ slashCalls = 0
  /\ callback = NoCallback
  /\ navigation = NoNavigation
  /\ location = PageLocation
  /\ router = NoRouterCall
  /\ classNameArg \in ClassNameArgs
  /\ isActiveArg \in OptBool
  /\ classNameRet = <<>>
  /\ parsedHref = NoHref

CallIsomorphicClassName ==
  /\ pc = "className"
  /\ classNameRet' = isomorphicClassName(classNameArg, defaultIsActive(isActiveArg))
  /\ pc' = "classNamed"
  /\ UNCHANGED << callVars, context, linkVars, slashVars, navVars, classNameArg, isActiveArg, parsedHref >>

NextClassName == CallIsomorphicClassName

SpecClassName == InitClassName /\ [][NextClassName]_vars

\* SpecNavigate: a component that uses useIsomorphicNavigate under a
\* provider; the provider's props are replaced, which renders the hook
\* again, and the callback of the latest render is called.
InitNavigate ==
  /\ to = StringTo(<<>>)
  /\ useTrailingSlash = Undefined
  /\ explicitlyOutgoing = Undefined
  /\ host = Undefined
  /\ ret = NoReturn
  /\ pc = "hook"
  /\ context = DefaultContext
  /\ props = NoProps
  /\ memo = NoMemo
  /\ element = NoElement
  /\ slashPath = <<>>
  /\ slashCalls = 0
  /\ callback = useIsomorphicNavigate(context, NoCallback)
  /\ navigation = NoNavigation
  /\ location = PageLocation
  /\ router = NoRouterCall
  /\ classNameArg = NoClassName
  /\ isActiveArg = Undefined
  /\ classNameRet = <<>>
  /\ parsedHref = NoHref

HookRender ==
  /\ pc = "hook"
  /\ \E p \in NavContexts : context' = IsomorphicNavProvider(p)
  /\ callback' = useIsomorphicNavigate(context', callback)
  /\ UNCHANGED << callVars, pc, linkVars, slashVars, navigation, location, router, classNameVars, parsedHref >>

\* The assignments of one call: window.location.href = ..., navigate(...)
ApplyEffects(effects) ==
  /\ location' = IF effects.assign = Undefined THEN location
                 ELSE [href |-> Value(effects.assign), assignments |-> location.assignments + 1]
  /\ router' = IF effects.navigate = Undefined THEN router
               ELSE [calls |-> router.calls + 1, to |-> Value(effects.navigate).to,
                     options |-> Value(effects.navigate).options]

Navigate ==
  /\ pc = "hook"
  /\ navigation.calls < MaxNavigations
  /\ \E t \in LinkTargets, o \in NavOptions, p \in NavProps :
       /\ ApplyEffects(isomorphicNavigate(callback, t, o, p))
       /\ navigation' = [calls |-> navigation.calls + 1, to |-> t, options |-> o, props |-> p,
                         error |-> isomorphicNavigate(callback, t, o, p).error]
  /\ UNCHANGED << callVars, pc, context, linkVars, slashVars, callback, classNameVars, parsedHref >>

NextNavigate == HookRender \/ Navigate

SpecNavigate == InitNavigate /\ [][NextNavigate]_vars

\* ------------------------------------------------------------------------
\* Properties
\* ------------------------------------------------------------------------

Words(className) == { className[i] : i \in 1..Len(className) }

IsStringTarget == to.type = "string"

ParsesAsUrl == IsStringTarget /\ URL(to.s).ok

HostEqual == host # Undefined /\ URL(to.s).host = Value(host)

Returned == pc = "returned"

Rendered == pc = "rendered"

\* The trailing-slash rule, as the specification words it
WithFinalSlash(p) == IF p = <<>> THEN <<"/">> ELSE IF Last(p) = "/" THEN p ELSE Append(p, "/")

\* pathname + search + hash of a parsed URL or HREF, the pathname after the
\* trailing-slash rule when slash is set
Assembled(parsed, slash) ==
  StringTo((IF slash THEN WithFinalSlash(parsed.pathname) ELSE parsed.pathname)
             \o parsed.search \o parsed.hash)

\* C1: a string target that parses as an absolute URL whose host differs
\* from the configured host (or no host is configured) comes back from
\* sanitizeTo as outgoing and unchanged, whatever the trailing-slash policy,
\* and the link is a native anchor to it with the external marker only.
C1_ForeignUrlOutgoingUnchanged ==
  (ParsesAsUrl /\ ~HostEqual) =>
     /\ Returned => (ret.kind = "return" /\ ret.isOutgoing /\ ret.to = to)
     /\ Rendered => /\ element.tag = "a"
                    /\ element.address = to
                    /\ "isomorphic-link--external" \in Words(element.className)
                    /\ "isomorphic-link--internal" \notin Words(element.className)

C1_Witness ==
  /\ Returned /\ ParsesAsUrl /\ ~HostEqual
  /\ host = Some(HostAB)
  /\ to = StringTo(<<"h","t","t","p","s",":","/","/","y",".","t","/","c">>)
  /\ Truthy(useTrailingSlash)
  /\ ret.isOutgoing /\ ret.to = to

\* C2 (as claimed): a URL on the configured host, without the explicit flag,
\* is internal and its router target is pathname + search + hash of the URL.
C2_Original ==
  (Returned /\ ParsesAsUrl /\ HostEqual /\ ~Truthy(explicitlyOutgoing)) =>
     /\ ret.kind = "return" /\ ~ret.isOutgoing
     /\ ret.to = Assembled(URL(to.s), FALSE)

\* C2 (amended): a URL on the configured host, without the explicit flag, is
\* internal and its router target is the URL's pathname, with the
\* trailing-slash rule applied to it when the policy is enabled, followed by
\* the URL's search and hash; scheme and host are removed.
C2_SameHostUrlInternal ==
  (Returned /\ ParsesAsUrl /\ HostEqual /\ ~Truthy(explicitlyOutgoing)) =>
     /\ ret.kind = "return" /\ ~ret.isOutgoing
     /\ ret.to = Assembled(URL(to.s), Truthy(useTrailingSlash))

C2_Witness ==
  /\ Returned /\ ParsesAsUrl /\ HostEqual /\ ~Truthy(explicitlyOutgoing)
  /\ Truthy(useTrailingSlash)
  /\ to = StringTo(<<"h","t","t","p","s",":","/","/","A",".","b","/","c","?","q","#","h">>)
  /\ ret.to = StringTo(<<"/", "c", "/", "?", "q", "#", "h">>)

\* C3: with the explicit external flag true, a URL on the configured host
\* is outgoing and its address is the input string unchanged.
C3_ExplicitFlagOverridesHost ==
  (Returned /\ ParsesAsUrl /\ HostEqual /\ Truthy(explicitlyOutgoing)) =>
     (ret.kind = "return" /\ ret.isOutgoing /\ ret.to = to)

C5_NonUrlInternal ==
  (Returned /\ IsStringTarget /\ ~ParsesAsUrl /\ ~Truthy(explicitlyOutgoing)) =>
     (ret.kind = "return" /\ ~ret.isOutgoing /\ ret.to.type = "string")

C5_Witness ==
  /\ Returned /\ to = StringTo(HostAB) /\ ~ParsesAsUrl
  /\ explicitlyOutgoing = Some(FALSE) /\ host = Undefined
  /\ ret.kind = "return" /\ ~ret.isOutgoing

\* C6: a string target that does not parse as an absolute URL, with the
\* explicit flag true, is outgoing and returned verbatim: no host prefix is
\* stripped and no trailing slash added.
C6_NonUrlExplicitVerbatim ==
  (Returned /\ IsStringTarget /\ ~ParsesAsUrl /\ Truthy(explicitlyOutgoing)) =>
     (ret.kind = "return" /\ ret.isOutgoing /\ ret.to = to)

C6_Witness ==
  /\ Returned /\ to = StringTo(HostAB \o <<"/", "c">>) /\ ~ParsesAsUrl
  /\ Truthy(explicitlyOutgoing) /\ host = Some(HostAB) /\ Truthy(useTrailingSlash)
  /\ ret.isOutgoing /\ ret.to = to

\* C7: a structured path target with the explicit flag true makes sanitizeTo
\* raise the configuration-misuse error, for every host and trailing-slash
\* setting; nothing is returned.
C7_PathWithFlagThrows ==
  (Returned /\ to.type = "path" /\ Truthy(explicitlyOutgoing)) =>
     (ret.kind = "throw" /\ ret.error = ConfigMisuse)

C7_Witness ==
  /\ Returned /\ to.type = "path" /\ to.pathname = Some(<<"/", "c">>)
  /\ Truthy(explicitlyOutgoing) /\ host = Some(HostAB) /\ Truthy(useTrailingSlash)
  /\ ret.kind = "throw"

\* C8: for every input other than a structured path with the explicit flag
\* true, sanitizeTo returns a result and raises nothing.
C8_NoOtherError ==
  (Returned /\ ~(to.type = "path" /\ Truthy(explicitlyOutgoing))) =>
     (ret.kind = "return" /\ ret.error = NoError)

C8_Witness ==
  /\ Returned /\ to = StringTo(<<":", "c">>) /\ ~ParsesAsUrl
  /\ ~Truthy(explicitlyOutgoing)
  /\ ret.kind = "return"

\* C9: for an internal string target under the trailing-slash policy the
\* returned target is pathname' + search + hash, in that order, where
\* pathname' is the parsed pathname if it ends in "/", "/" if it is empty,
\* and the parsed pathname plus one "/" otherwise; search and hash are the
\* parsed ones.
C9_TrailingSlashAssembly ==
  (Returned /\ IsStringTarget /\ ret.kind = "return" /\ ~ret.isOutgoing /\ Truthy(useTrailingSlash)) =>
     ret.to = Assembled(parseHref(to.s, host, explicitlyOutgoing), TRUE)

C9_Witness ==
  /\ Returned /\ to = StringTo(<<"c", "?", "q", "#", "h">>)
  /\ Truthy(useTrailingSlash) /\ ~ret.isOutgoing
  /\ ret.to = StringTo(<<"/", "c", "/", "?", "q", "#", "h">>)

\* C11 (as claimed): a structured path without the explicit flag, under the
\* trailing-slash policy, comes back as a structured path whose pathname has
\* the rule for strings applied ("/" appended unless it ends in "/", an empty
\* pathname becomes "/") and whose search and hash are untouched.
C11_Original ==
  (Returned /\ to.type = "path" /\ to.pathname # Undefined
     /\ ~Truthy(explicitlyOutgoing) /\ Truthy(useTrailingSlash)) =>
     /\ ret.kind = "return" /\ ret.to.type = "path"
     /\ ret.to.pathname = Some(WithFinalSlash(Value(to.pathname)))
     /\ ret.to.search = to.search /\ ret.to.hash = to.hash

\* C11 (amended): a structured path without the explicit flag, under the
\* trailing-slash policy, comes back as a structured path, never a string;
\* a non-empty pathname gets "/" appended unless it ends in "/", an empty or
\* missing pathname is left as it is, and search and hash are untouched.
C11_PathTrailingSlash ==
  (Returned /\ to.type = "path" /\ ~Truthy(explicitlyOutgoing) /\ Truthy(useTrailingSlash)) =>
     /\ ret.kind = "return" /\ ret.to.type = "path"
     /\ ret.to.pathname = (IF to.pathname = Undefined \/ to.pathname = Some(<<>>)
                             THEN to.pathname
                             ELSE Some(WithFinalSlash(Value(to.pathname))))
     /\ ret.to.search = to.search /\ ret.to.hash = to.hash

C11_Witness ==
  /\ Returned /\ to = PathTo(Some(<<"/", "c">>), Some(<<"?", "q">>), Some(<<"#", "h">>))
  /\ explicitlyOutgoing = Undefined /\ Truthy(useTrailingSlash)
  /\ ret.to = PathTo(Some(<<"/", "c", "/">>), Some(<<"?", "q">>), Some(<<"#", "h">>))

\* C12: whenever sanitizeTo returns for a structured path, the result is not
\* outgoing and is a structured path, for every host and trailing-slash
\* setting.
C12_PathNeverOutgoing ==
  (Returned /\ to.type = "path" /\ ret.kind = "return") =>
     (~ret.isOutgoing /\ ret.to.type = "path")

C12_Witness ==
  /\ Returned /\ to.type = "path" /\ to.pathname = Some(<<"c">>)
  /\ host = Some(HostAB) /\ Truthy(useTrailingSlash) /\ explicitlyOutgoing = Some(FALSE)
  /\ ret.kind = "return" /\ ~ret.isOutgoing

\* C13: the target "mailto:a@b.com" is outgoing and passed through
\* unchanged, for every configured host and without one.
C13_MailtoOutgoing ==
  (Returned /\ to = StringTo(Mailto)) =>
     (ret.kind = "return" /\ ret.isOutgoing /\ ret.to = to)

Mounted == pc = "mounted" /\ element.tag # "error"

InternalMarker == "isomorphic-link--internal"

ExternalMarker == "isomorphic-link--external"

\* The element agrees with a classification: anchor, final target as href
\* and the external marker alone when outgoing; NavLink, final target and
\* the internal marker alone otherwise
MarkedAs(sanitized) ==
  /\ sanitized.kind = "return"
  /\ element.address = sanitized.to
  /\ "isomorphic-link" \in Words(element.className)
  /\ sanitized.isOutgoing =>
       /\ element.tag = "a"
       /\ ExternalMarker \in Words(element.className)
       /\ InternalMarker \notin Words(element.className)
  /\ ~sanitized.isOutgoing =>
       /\ element.tag = "NavLink"
       /\ InternalMarker \in Words(element.className)
       /\ ExternalMarker \notin Words(element.className)

\* C14: every rendered link has the class "isomorphic-link" and exactly one
\* marker: the external one iff the target is outgoing, and then it is an
\* anchor whose href is the final target; the internal one iff the target is
\* internal, and then it is a NavLink to the final target.
C14_OneMarkerPerLink ==
  Mounted => MarkedAs(sanitizeTo(props.to, context.useTrailingSlash, props.isExternal, context.host))

C14_Witness ==
  /\ Mounted
  /\ props.to = StringTo(<<"h","t","t","p","s",":","/","/","y","o","u","t","u","b","e",".","c","o","m">>)
  /\ props.className = StringClassName(<<"all">>)
  /\ element.tag = "a"
  /\ element.className = <<"isomorphic-link", ExternalMarker, "all">>

\* C15: on an anchor a className, style or children function is called with
\* isActive = false; on a NavLink the className function is called with the
\* isActive of the router and its result follows the two fixed classes.
C15_RenderPropsActive ==
  (Mounted /\ props.className.kind = "function") =>
     /\ element.tag = "a" =>
          /\ element.className = <<"isomorphic-link", ExternalMarker>> \o Value(props.className.fn[FALSE])
          /\ props.style.kind = "function" => element.style = props.style.fn[FALSE]
          /\ props.children.kind = "function" => element.children = props.children.fn[FALSE]
     /\ element.tag = "NavLink" =>
          element.className = <<"isomorphic-link", InternalMarker>> \o Value(props.className.fn[element.active])

C15_Witness ==
  /\ Mounted
  /\ element.tag = "a"
  /\ props.className.kind = "function" /\ props.style.kind = "function" /\ props.children.kind = "function"
  /\ element.className = <<"isomorphic-link", ExternalMarker, "all", "not-active">>
  /\ element.style = Some(<<"color: blue">>)
  /\ element.children = Some(<<"Link">>)

\* C16: a rendered link has target="_blank" and rel="noopener noreferrer"
\* exactly when it is an anchor and openOutgoingAsBlank is true; otherwise it
\* has neither attribute.
C16_BlankOnlyOutgoingUnderPolicy ==
  Mounted =>
     IF element.tag = "a" /\ context.openOutgoingAsBlank = Some(TRUE)
       THEN element.target = Some("_blank") /\ element.rel = Some("noopener noreferrer")
       ELSE element.target = Undefined /\ element.rel = Undefined

C16_Witness ==
  /\ Mounted
  /\ element.tag = "a"
  /\ context.openOutgoingAsBlank = Some(TRUE)
  /\ element.target = Some("_blank")
  /\ element.rel = Some("noopener noreferrer")

\* C17: a NavLink has the prefetch of the link's own props when the link
\* gives one, otherwise the defaultPrefetch of the provider; without a
\* provider and without a prefetch prop it has "none".
C17_PrefetchLinkWins ==
  (Mounted /\ element.tag = "NavLink") =>
     /\ props.prefetch # Undefined => element.prefetch = props.prefetch
     /\ props.prefetch = Undefined => element.prefetch = context.defaultPrefetch
     /\ (props.prefetch = Undefined /\ context = DefaultContext) => element.prefetch = Some("none")

C17_Witness ==
  /\ Mounted
  /\ element.tag = "NavLink"
  /\ context.defaultPrefetch = Some("intent")
  /\ props.prefetch = Some("render")
  /\ element.prefetch = Some("render")

\* The link IsomorphicLink renders for the target and flag of the last call
LinkFor(navTo, isExternal) ==
  IsomorphicLink(LinkProps(navTo, isExternal, NoClassName, Undefined), context,
                 useSanitizedTo(context, NoMemo, navTo, isExternal).value, FALSE)

\* One call made one location assignment of the given string and no navigate
AssignedOnly(link, navTo) ==
  /\ link.address = navTo
  /\ location' = [href |-> navTo.s, assignments |-> location.assignments + 1]
  /\ router' = router

\* One call made one navigate with the link's address and no assignment
NavigatedOnly(link, options) ==
  /\ router' = [calls |-> router.calls + 1, to |-> link.address, options |-> options]
  /\ location' = location

OneEffect(link, navTo, options) ==
  IF link.tag = "a" THEN AssignedOnly(link, navTo)
  ELSE link.tag = "NavLink" /\ NavigatedOnly(link, options)

\* C18: a call of the callback that throws nothing either assigns the target
\* string, unchanged, to window.location.href and does not call navigate, when
\* IsomorphicLink renders an anchor for the same target, flag and context; or
\* calls navigate once with the address IsomorphicLink gives its NavLink and
\* the given options and assigns nothing.
C18_NavigateOneEffect ==
  [][(navigation'.calls = navigation.calls + 1 /\ navigation'.error = NoError) =>
       OneEffect(LinkFor(navigation'.to, isExternalOf(navigation'.props)),
                 navigation'.to, navigation'.options)]_vars

C18_Witness ==
  /\ navigation.calls = 2 /\ navigation.error = NoError
  /\ location = [href |-> <<"h","t","t","p","s",":","/","/","y","o","u","t","u","b","e",".","c","o","m">>,
                 assignments |-> 1]
  /\ router = [calls |-> 1, to |-> StringTo(<<"/","c","o","n","t","a","c","t","/">>),
               options |-> Some([replace |-> TRUE])]

\* C20: a second application of addFinalSlash changes nothing, and no
\* application changes a pathname that ends in "/".
C20_AddFinalSlashIdempotent ==
  [][(slashCalls' = slashCalls + 1) =>
       /\ slashCalls >= 1 => slashPath' = slashPath
       /\ (slashPath # <<>> /\ Last(slashPath) = "/") => slashPath' = slashPath]_vars

C20_Witness ==
  /\ slashCalls = 2
  /\ slashPath = <<"/", "c", "c", "/">>

\* C21: isomorphicClassName returns "" for a missing or empty className, the
\* string for a string, and for a function its result at the given isActive
\* (false when isActive is left out), "" when that result is empty or
\* undefined.
C21_IsomorphicClassName ==
  pc = "classNamed" =>
     /\ classNameArg.kind = "undefined" => classNameRet = <<>>
     /\ classNameArg.kind = "string" => classNameRet = classNameArg.str
     /\ classNameArg.kind = "function" =>
          classNameRet = (IF classNameArg.fn[isActiveArg = Some(TRUE)] = Undefined THEN <<>>
                          ELSE Value(classNameArg.fn[isActiveArg = Some(TRUE)]))

C21_Witness ==
  /\ pc = "classNamed"
  /\ classNameArg.kind = "function"
  /\ isActiveArg = Some(TRUE)
  /\ classNameArg.fn[TRUE] = Some(<<"all", "active">>)
  /\ classNameArg.fn[FALSE] = Undefined
  /\ classNameRet = <<"all", "active">>

\* The link and the callback agree with a result of sanitizeTo: the memoized
\* value is that result, the element has its target (or is the error it
\* throws), and a call of the callback for the link's target and flag does
\* what that result asks for
UsesResult(fresh) ==
  /\ memo.value = fresh
  /\ fresh.kind = "return" => element.address = fresh.to /\ element.tag # "error"
  /\ fresh.kind = "throw" => element.tag = "error" /\ element.error = fresh.error
  /\ isomorphicNavigate(callback, props.to, Undefined, Some([isExternal |-> props.isExternal]))
       = navigateEffects(fresh, Undefined)

\* C22: after any sequence of provider replacements and renders, the
\* memoized result, the rendered target and the target a call of the
\* callback would use are those of sanitizeTo on the current props and the
\* current context.
C22_NoStaleResult ==
  pc = "mounted" =>
     UsesResult(sanitizeTo(props.to, context.useTrailingSlash, props.isExternal, context.host))

C22_Witness ==
  /\ pc = "mounted"
  /\ context.host = Some(MyDomain) /\ context.useTrailingSlash = Undefined
  /\ callback.host = Some(MyDomain)
  /\ props.to = StringTo(<<"h","t","t","p","s",":","/","/","m","y","d","o","m","a","i","n",".","c","o","m","/","c","o","n","t","a","c","t">>)
  /\ memo.value = Return(FALSE, StringTo(<<"/","c","o","n","t","a","c","t">>))
  /\ element.tag = "NavLink"

\* The string without the configured host at its front, if it begins with it
WithoutHost(str, h) ==
  IF h # Undefined /\ Len(Value(h)) <= Len(str) /\ SubSeq(str, 1, Len(Value(h))) = Value(h)
    THEN SubSeq(str, Len(Value(h)) + 1, Len(str))
    ELSE str

\* The HREF is that of the remainder: absolute iff the remainder starts with
\* "/", and pathname, search and hash those of the remainder as a path of
\* the fake origin
ParsedAs(remainder, url) ==
  /\ ~parsedHref.thrown /\ ~parsedHref.isOutgoing
  /\ parsedHref.isAbsolute = (remainder # <<>> /\ remainder[1] = "/")
  /\ url.ok
  /\ parsedHref.pathname = url.pathname /\ parsedHref.search = url.search /\ parsedHref.hash = url.hash

RootAnchored(remainder) ==
  IF remainder # <<>> /\ remainder[1] = "/" THEN remainder ELSE <<"/">> \o remainder

\* C23: for a string that is no URL, without the explicit flag, parseHref
\* removes the configured host from the front of the string when the string
\* begins with it and nothing otherwise, marks the remainder absolute exactly
\* when it starts with "/", and parses the remainder as a path.
C23_HostPrefixStripped ==
  (pc = "parsed" /\ ~URL(to.s).ok /\ ~Truthy(explicitlyOutgoing)) =>
     ParsedAs(WithoutHost(to.s, host), URL(FakeOrigin \o RootAnchored(WithoutHost(to.s, host))))

C23_Witness ==
  /\ pc = "parsed"
  /\ to = StringTo(<<"a", ".", "b", "/", "c">>)
  /\ host = Some(HostAB)
  /\ explicitlyOutgoing = Undefined
  /\ parsedHref.pathname = <<"/", "c">>
  /\ parsedHref.isAbsolute

\* C24: whenever sanitizeTo returns a string target as internal, the
\* returned target is a string that begins with "/".
C24_InternalStringRooted ==
  (Returned /\ IsStringTarget /\ ret.kind = "return" /\ ~ret.isOutgoing) =>
     (ret.to.type = "string" /\ ret.to.s # <<>> /\ ret.to.s[1] = "/")

\* C25: sanitizeTo called on the internal string target that sanitizeTo
\* returned, with the same host and trailing-slash setting and no explicit
\* flag, returns that target again, as internal.
C25_NormalizationIdempotent ==
  (pc = "again" /\ IsStringTarget) => ret = Return(FALSE, to)

\* C26: a call of the callback with a Path target and isExternal true throws
\* the configuration-misuse error, assigns nothing to window.location and
\* does not call the router's navigate.
C26_MisuseBeforeEffects ==
  [][(/\ navigation'.calls = navigation.calls + 1
      /\ navigation'.to.type = "path"
      /\ Truthy(isExternalOf(navigation'.props))) =>
       (navigation'.error = ConfigMisuse /\ location' = location /\ router' = router)]_vars

C26_Witness ==
  /\ navigation.calls = 2
  /\ navigation.to.type = "path"
  /\ navigation.props = Some([isExternal |-> Some(TRUE)])
  /\ navigation.error = ConfigMisuse
  /\ location.assignments = 0
  /\ router.calls = 1

\* C10: under a provider given useFinalSlash = true, as the test Wrapper
\* gives it, a link to the relative target "contact" is rendered through the
\* router with the address "/contact/".
C10_ProviderSlashReachesLink ==
  (/\ pc = "mounted"
   /\ context.useFinalSlash = Some(TRUE) /\ context.useTrailingSlash = Undefined
   /\ props.to = StringTo(<<"c","o","n","t","a","c","t">>) /\ props.isExternal = Undefined) =>
     (element.tag = "NavLink" /\ element.address = StringTo(<<"/","c","o","n","t","a","c","t","/">>))
====
